---- MODULE Spec2Model ----
(***************************************************************************)
(* X.509 certificate chain verification of sigstore-js                     *)
(* (src/x509/verify.ts): verifyCertificateChain, the class                 *)
(* CertificateChainVerifier (verify, sort, buildPaths, findIssuer,         *)
(* checkPath) and dedupeCertificates.                                      *)
(*                                                                         *)
(* One behaviour is one call of verifyCertificateChain.  The recursion of  *)
(* buildPaths is run on an explicit call stack, one frame per invocation.  *)
(***************************************************************************)
EXTENDS Naturals, Sequences, FiniteSets

VARIABLES trustedCerts, certs, localCerts, pc, stack, paths,
          certificatePath, result, error, found

vars == <<trustedCerts, certs, localCerts, pc, stack, paths,
          certificatePath, result, error, found>>

(***************************************************************************)
(* Bounds of the model.                                                    *)
(***************************************************************************)
MaxTrusted == 2
MaxCerts == 2
MaxDepth == 6

None == "none"

(***************************************************************************)
(* The certificates the inputs are drawn from.  A certificate is what the  *)
(* verifier queries of an x509Certificate: subject, issuer, isCA,          *)
(* validForDate(validAt), extAuthorityKeyID, extSubjectKeyID, and the      *)
(* public key / signing key that decide verify().                          *)
(***************************************************************************)
Mk(sub, iss, k, sg, ca, ok, a, s) ==
    [subject |-> sub, issuer |-> iss, key |-> k, signer |-> sg,
     isCA |-> ca, valid |-> ok, aki |-> a, ski |-> s]

Universe ==
    [ R |-> Mk("nR", "nR", "kR", "kR", TRUE,  TRUE,  None, "sR"),
      I |-> Mk("nI", "nR", "kI", "kR", TRUE,  TRUE,  None, "sI"),
      L |-> Mk("nL", "nI", "kL", "kI", FALSE, TRUE,  None, None),
      T |-> Mk("nI", "nI", "kI", "kI", TRUE,  TRUE,  None, "sI"),
      K |-> Mk("nL", "nI", "kL", "kI", FALSE, TRUE,  "sI", None),
      D |-> Mk("nI", "nZ", "kI", "kZ", TRUE,  TRUE,  None, None),
      N |-> Mk("nN", "nN", "kI", "kI", TRUE,  TRUE,  None, "sI"),
      E |-> Mk("nI", "nI", "kE", "kE", TRUE,  FALSE, None, "sE"),
      P |-> Mk("nI", "nI", "kI", "kI", FALSE, TRUE,  None, None),
      F |-> Mk("nI", "nI", "kF", "kF", TRUE,  TRUE,  None, None),
      C |-> Mk("nR", "nI", "kR", "kI", TRUE,  TRUE,  None, None),
      S |-> Mk("nR", "nR", "bad", "kR", TRUE, TRUE,  None, None) ]

\* The pools of certificates one call draws its two lists from.
Families ==
    { {"R", "I", "L", "T"},
      {"R", "I", "D", "K"},
      {"K", "N", "E", "P"},
      {"R", "I", "L", "F"},
      {"R", "I", "C", "S"} }

\* A certificate object: id is the object's identity (what Array.includes
\* compares), c its content (what equals() compares).
Obj(i, name) == [id |-> i, c |-> name]

Subject(o) == Universe[o.c].subject
Issuer(o) == Universe[o.c].issuer
IsCA(o) == Universe[o.c].isCA
ValidForDate(o) == Universe[o.c].valid
AuthorityKeyID(o) == Universe[o.c].aki
SubjectKeyID(o) == Universe[o.c].ski

\* x509Certificate.equals: structural identity.
Equals(a, b) == a.c = b.c

\* x509Certificate.verify(issuer): the signature of cert checked with the
\* issuer's public key; raises when that key cannot be used.
verify(cert, issuer) ==
    IF Universe[issuer.c].key = "bad" THEN "raise"
    ELSE IF Universe[cert.c].signer = Universe[issuer.c].key THEN "true"
    ELSE "false"

\* x509Certificate.verify(): the self-check, with the certificate's own key.
verifySelf(cert) == verify(cert, cert)

(***************************************************************************)
(* dedupeCertificates: for each i, every later element equal to certs[i]   *)
(* is spliced out.                                                         *)
(***************************************************************************)
RECURSIVE dedupeFrom(_, _)
dedupeFrom(cs, i) ==
    IF i > Len(cs) THEN cs
    ELSE dedupeFrom(
           SubSeq(cs, 1, i) \o
             SelectSeq(SubSeq(cs, i + 1, Len(cs)), LAMBDA x : ~Equals(cs[i], x)),
           i + 1)

dedupeCertificates(cs) == dedupeFrom(cs, 1)

(***************************************************************************)
(* findIssuer                                                              *)
(***************************************************************************)
\* The forEach over localCerts: the candidate issuers before the signature
\* filter.
possibleIssuersNoReturn(certificate, pool) ==
    LET keyIdentifier == AuthorityKeyID(certificate)
    IN  SelectSeq(pool, LAMBDA p :
          \/ /\ keyIdentifier # None
             /\ SubjectKeyID(p) # None
             /\ SubjectKeyID(p) = keyIdentifier
          \/ Subject(p) = Issuer(certificate))

possibleIssuers(certificate, pool) ==
    LET keyIdentifier == AuthorityKeyID(certificate)
    IN  SelectSeq(pool, LAMBDA p :
          IF keyIdentifier # None /\ SubjectKeyID(p) # None
          THEN SubjectKeyID(p) = keyIdentifier
          ELSE Subject(p) = Issuer(certificate))

\* The filter callback: try { return certificate.verify(issuer) }
\* catch { return false }.
verifiesAlways(certificate, issuer) == TRUE

verifies(certificate, issuer) == verify(certificate, issuer) = "true"

\* The outcome of findIssuer(certificate): raised, when the unguarded
\* self-check throws; otherwise the issuers returned, with the candidate
\* list as it stood before the signature filter.
findIssuer(certificate, pool) ==
    LET selfNamed == Subject(certificate) = Issuer(certificate)
        cands == possibleIssuers(certificate, pool)
    IN  IF selfNamed /\ verifySelf(certificate) = "raise"
        THEN [raised |-> TRUE, early |-> FALSE, certificate |-> certificate,
              candidates |-> <<>>, issuers |-> <<>>]
        ELSE IF selfNamed /\ verifySelf(certificate) = "true"
        THEN [raised |-> FALSE, early |-> TRUE, certificate |-> certificate,
              candidates |-> <<>>, issuers |-> <<certificate>>]
        ELSE [raised |-> FALSE, early |-> FALSE, certificate |-> certificate,
              candidates |-> cands,
              issuers |-> SelectSeq(cands, LAMBDA i : verifies(certificate, i))]

(***************************************************************************)
(* sort: the trusted filter and the shortest-path reduce.                  *)
(***************************************************************************)
\* this.trustedCerts.includes(cert): object identity.
includes(trusted, cert) == \E k \in 1..Len(trusted) : trusted[k].id = cert.id

hasTrustedAny(path, trusted) == TRUE

hasTrusted(path, trusted) ==
    \E k \in 1..Len(path) : includes(trusted, path[k])

RECURSIVE reduceFrom(_, _, _)
reduceFrom(ps, k, prev) ==
    IF k > Len(ps) THEN prev
    ELSE reduceFrom(ps, k + 1, IF Len(prev) < Len(ps[k]) THEN prev ELSE ps[k])

reduceFirst(ps) == ps[1]

\* paths.reduce((prev, curr) => prev.length < curr.length ? prev : curr)
reduceShortest(ps) == reduceFrom(ps, 2, ps[1])

trustedPaths(ps, trusted) == SelectSeq(ps, LAMBDA p : hasTrusted(p, trusted))

(***************************************************************************)
(* checkPath: the first rule violated, or "ok".                            *)
(***************************************************************************)
checkPath(path) ==
    IF Len(path) < 2
    THEN "Certificate chain must contain at least two certificates"
    ELSE IF \E k \in 1..Len(path) : ~ValidForDate(path[k])
    THEN "Certificate is not valid or expired at the specified date"
    ELSE IF \E k \in 2..Len(path) : ~IsCA(path[k])
    THEN "Intermediate certificate is not a CA"
    ELSE IF \E k \in 1..(Len(path) - 1) : Issuer(path[k]) # Subject(path[k + 1])
    THEN "Incorrect certificate name chaining"
    ELSE "ok"

(***************************************************************************)
(* The call.                                                               *)
(***************************************************************************)
RECURSIVE SeqsUpTo(_, _)
SeqsUpTo(S, n) ==
    IF n = 0 THEN {<<>>}
    ELSE LET shorter == SeqsUpTo(S, n - 1)
         IN  shorter \cup {Append(s, x) : s \in {t \in shorter : Len(t) = n - 1}, x \in S}

\* The objects of a list of certificates, numbered from base + 1.
Objects(names, base) == [k \in 1..Len(names) |-> Obj(base + k, names[k])]

NoFind == [raised |-> FALSE, early |-> FALSE, certificate |-> Obj(0, "R"),
           candidates |-> <<>>, issuers |-> <<>>]

\* The state after new CertificateChainVerifier(opts).
Init ==
    \E fam \in Families :
      \E ts \in SeqsUpTo(fam, MaxTrusted), cs \in SeqsUpTo(fam, MaxCerts) :
        /\ trustedCerts = Objects(ts, 0)
        /\ certs = Objects(cs, Len(ts))
        /\ localCerts = dedupeCertificates(Objects(ts, 0) \o Objects(cs, Len(ts)))
        /\ pc = "verify"
        /\ stack = <<>>
        /\ paths = <<>>
        /\ certificatePath = <<>>
        /\ result = <<>>
        /\ error = None
        /\ found = NoFind

Throw(msg) ==
    /\ error' = msg
    /\ pc' = "done"
    /\ stack' = <<>>

\* verify(): no certificates provided.
VerifyNoCerts ==
    /\ pc = "verify"
    /\ Len(certs) = 0
    /\ Throw("No certificates provided")
    /\ UNCHANGED <<trustedCerts, certs, localCerts, paths, certificatePath,
                   result, found>>

\* verify() calls sort().
VerifySort ==
    /\ pc = "verify"
    /\ Len(certs) # 0
    /\ pc' = "sort"
    /\ UNCHANGED <<trustedCerts, certs, localCerts, stack, paths,
                   certificatePath, result, error, found>>

leafCert == localCerts[Len(localCerts)]

Top == stack[Len(stack)]

\* buildPaths is about to be called: by sort on the leaf, or by the loop of
\* the running invocation on an issuer that is not the certificate itself.
Calling ==
    \/ pc = "sort"
    \/ /\ pc = "buildPaths"
       /\ Top.i <= Len(Top.issuers)
       /\ ~Equals(Top.issuers[Top.i], Top.certificate)

Callee == IF pc = "sort" THEN leafCert ELSE Top.issuers[Top.i]

\* buildPaths(certificate): findIssuer returned at least one issuer.  The
\* code puts no limit on the depth of the recursion; MaxDepth is where the
\* model stops following it.
BuildPathsEnter ==
    /\ Calling
    /\ Len(stack) < MaxDepth
    /\ LET f == findIssuer(Callee, localCerts)
       IN  /\ ~f.raised
           /\ Len(f.issuers) # 0
           /\ found' = f
           /\ stack' = Append(stack, [certificate |-> Callee, issuers |-> f.issuers,
                                      i |-> 1, paths |-> <<>>])
    /\ pc' = "buildPaths"
    /\ UNCHANGED <<trustedCerts, certs, localCerts, paths, certificatePath,
                   result, error>>

\* buildPaths(certificate): no issuer, the whole call is abandoned.
BuildPathsNoIssuer ==
    /\ Calling
    /\ LET f == findIssuer(Callee, localCerts)
       IN  /\ ~f.raised
           /\ Len(f.issuers) = 0
           /\ found' = f
    /\ Throw("No valid certificate path found")
    /\ UNCHANGED <<trustedCerts, certs, localCerts, paths, certificatePath, result>>

\* findIssuer: certificate.verify() of a certificate whose subject is its
\* issuer throws outside any try block.
FindIssuerThrows ==
    /\ Calling
    /\ LET f == findIssuer(Callee, localCerts)
       IN  /\ f.raised
           /\ found' = f
    /\ Throw("signature check raised")
    /\ UNCHANGED <<trustedCerts, certs, localCerts, paths, certificatePath, result>>

\* The loop of buildPaths: the issuer is the certificate itself.
BuildPathsBaseCase ==
    /\ pc = "buildPaths"
    /\ Top.i <= Len(Top.issuers)
    /\ Equals(Top.issuers[Top.i], Top.certificate)
    /\ stack' = [stack EXCEPT ![Len(stack)] =
                   [@ EXCEPT !.paths = Append(@, <<Top.certificate>>),
                             !.i = @ + 1]]
    /\ UNCHANGED <<trustedCerts, certs, localCerts, pc, paths, certificatePath,
                   result, error, found>>

\* A recursive invocation returns: the caller prefixes the issuer to every
\* sub-path and goes on with its next issuer.
BuildPathsReturn ==
    /\ pc = "buildPaths"
    /\ Len(stack) > 1
    /\ Top.i > Len(Top.issuers)
    /\ LET caller == stack[Len(stack) - 1]
           issuer == caller.issuers[caller.i]
           subPaths == Top.paths
           added == [j \in 1..Len(subPaths) |-> <<issuer>> \o subPaths[j]]
       IN  stack' = Append(SubSeq(stack, 1, Len(stack) - 2),
                           [caller EXCEPT !.paths = @ \o added, !.i = @ + 1])
    /\ UNCHANGED <<trustedCerts, certs, localCerts, pc, paths, certificatePath,
                   result, error, found>>

\* The outermost invocation returns to sort.
BuildPathsReturnToSort ==
    /\ pc = "buildPaths"
    /\ Len(stack) = 1
    /\ Top.i > Len(Top.issuers)
    /\ paths' = Top.paths
    /\ stack' = <<>>
    /\ pc' = "select"
    /\ UNCHANGED <<trustedCerts, certs, localCerts, certificatePath, result,
                   error, found>>

\* sort: no path contains a trusted certificate.
SortNoTrustedPath ==
    /\ pc = "select"
    /\ Len(trustedPaths(paths, trustedCerts)) = 0
    /\ Throw("No trusted certificate path found")
    /\ UNCHANGED <<trustedCerts, certs, localCerts, paths, certificatePath,
                   result, found>>

\* sort: the shortest trusted path, behind the leaf.
SortSelect ==
    /\ pc = "select"
    /\ Len(trustedPaths(paths, trustedCerts)) # 0
    /\ certificatePath' = <<leafCert>> \o reduceShortest(trustedPaths(paths, trustedCerts))
    /\ pc' = "checkPath"
    /\ UNCHANGED <<trustedCerts, certs, localCerts, stack, paths, result,
                   error, found>>

\* verify(): checkPath throws.
CheckPathThrows ==
    /\ pc = "checkPath"
    /\ checkPath(certificatePath) # "ok"
    /\ Throw(checkPath(certificatePath))
    /\ UNCHANGED <<trustedCerts, certs, localCerts, paths, certificatePath,
                   result, found>>

\* verify(): the path is returned.
VerifyReturn ==
    /\ pc = "checkPath"
    /\ checkPath(certificatePath) = "ok"
    /\ result' = certificatePath
    /\ pc' = "done"
    /\ UNCHANGED <<trustedCerts, certs, localCerts, stack, paths,
                   certificatePath, error, found>>

Next ==
    \/ VerifyNoCerts
    \/ VerifySort
    \/ BuildPathsEnter
    \/ BuildPathsNoIssuer
    \/ FindIssuerThrows
    \/ BuildPathsBaseCase
    \/ BuildPathsReturn
    \/ BuildPathsReturnToSort
    \/ SortNoTrustedPath
    \/ SortSelect
    \/ CheckPathThrows
    \/ VerifyReturn

Spec == Init /\ [][Next]_vars

Returned == pc = "done" /\ error = None

(***************************************************************************)
(* Properties of the call.                                                 *)
(***************************************************************************)
Contents(path) == [k \in 1..Len(path) |-> path[k].c]

PoolSet == {localCerts[k] : k \in 1..Len(localCerts)}

IsTrusted(o) == \E k \in 1..Len(trustedCerts) : Equals(trustedCerts[k], o)

SelfSigned(o) == Subject(o) = Issuer(o) /\ verifySelf(o) = "true"

\* The certificate sort starts from is the last supplied certificate:
\* deduplication did not remove it.
LeafKept == Len(certs) # 0 /\ Equals(leafCert, certs[Len(certs)])

\* leaf, intermediate and root make a valid 3-certificate chain that is the
\* whole pool, the leaf being the last supplied certificate.
ThreeChain(leaf, int, root) ==
    /\ LeafKept
    /\ Equals(leafCert, leaf)
    /\ Subject(leaf) # Issuer(leaf)
    /\ Subject(int) # Issuer(int)
    /\ PoolSet = {leaf, int, root}
    /\ Cardinality(PoolSet) = 3
    /\ verify(leaf, int) = "true"
    /\ verify(int, root) = "true"
    /\ SelfSigned(root)
    /\ IsTrusted(root)
    /\ Issuer(leaf) = Subject(int)
    /\ Issuer(int) = Subject(root)
    /\ IsCA(int) /\ IsCA(root)
    /\ ValidForDate(leaf) /\ ValidForDate(int) /\ ValidForDate(root)

\* C1: for a pool that is exactly a valid chain leaf, intermediate CA,
\* trusted self-signed root, the call returns exactly <<leaf, intermediate,
\* root>>.
C1_ExactlyThree ==
    \A leaf \in PoolSet, int \in PoolSet, root \in PoolSet :
      (ThreeChain(leaf, int, root) /\ pc = "done")
        => (error = None /\ Contents(result) = <<leaf.c, int.c, root.c>>)

\* C2: when the only supplied certificate is self-signed and trusted, the
\* call fails with 'chain must contain at least two certificates' and
\* returns no path.
C2_SingleSelfSignedTooShort ==
    (/\ pc = "done"
     /\ Len(certs) = 1
     /\ Len(localCerts) = 1
     /\ SelfSigned(certs[1])
     /\ IsTrusted(certs[1]))
      => (/\ error = "Certificate chain must contain at least two certificates"
          /\ result = <<>>)

C4_StartsAtLeaf ==
    Returned => Equals(result[1], certs[Len(certs)])

TrustedIndices == {k \in 1..Len(paths) :
                     \E j \in 1..Len(paths[k]) : includes(trustedCerts, paths[k][j])}

\* C5: the issuer path selected for the chain is one of the enumerated paths
\* that contain a trusted certificate, and none of those is strictly
\* shorter.
C5_ShortestSelected ==
    (pc \in {"checkPath", "done"} /\ certificatePath # <<>>)
      => /\ \E k \in TrustedIndices : paths[k] = Tail(certificatePath)
         /\ \A k \in TrustedIndices : Len(Tail(certificatePath)) <= Len(paths[k])

\* A path is returned where trusted issuer paths of 2 and of 3 certificates
\* were enumerated, the longer one first.
C5_Witness ==
    /\ Returned
    /\ \E j \in TrustedIndices, k \in TrustedIndices :
         j < k /\ Len(paths[j]) = 3 /\ Len(paths[k]) = 2
    /\ Len(result) = 3

\* d is a candidate issuer whose own chain dead-ends: not self-signed, and
\* no pool member verifies as its issuer.
DeadEnd(d) ==
    /\ Subject(d) # Issuer(d)
    /\ \A p \in PoolSet : verify(d, p) # "true"

\* g leads from the leaf to a trusted self-signed root, with all policy
\* checks of the chain satisfied.
GoodIssuer(leaf, g) ==
    \E r \in PoolSet :
      /\ verify(g, r) = "true"
      /\ ~Equals(g, r)
      /\ SelfSigned(r)
      /\ includes(trustedCerts, r)
      /\ checkPath(<<leaf, g, r>>) = "ok"

\* The candidate issuers findIssuer returns for the leaf.
LeafIssuers ==
    LET f == findIssuer(leafCert, localCerts)
    IN  {f.issuers[k] : k \in 1..Len(f.issuers)}

\* C6: when the leaf has two signature-verifying candidate issuers, one that
\* dead-ends and one that leads to a trusted self-signed root, the call
\* still returns a path.
C6_DeadEndNotFatal ==
    (/\ pc = "done"
     /\ LeafKept
     /\ \E d \in LeafIssuers, g \in LeafIssuers :
          /\ verify(leafCert, d) = "true"
          /\ verify(leafCert, g) = "true"
          /\ DeadEnd(d)
          /\ GoodIssuer(leafCert, g))
      => Returned

\* findIssuer enumerated candidate issuers for a certificate that carries an
\* authority key identifier.
KeyedSearch ==
    /\ found # NoFind
    /\ ~found.raised /\ ~found.early
    /\ AuthorityKeyID(found.certificate) # None

\* C7 as claimed: with an authority key identifier, every candidate issuer
\* has the matching subject key identifier.
C7_OnlyKeyMatches ==
    KeyedSearch
      => \A k \in 1..Len(found.candidates) :
           SubjectKeyID(found.candidates[k]) = AuthorityKeyID(found.certificate)

\* C7 as amended: with an authority key identifier, the candidates are the
\* pool members whose subject key identifier equals it, and the pool
\* members that have no subject key identifier and whose subject is the
\* certificate's issuer.
C7_KeyMatchOrUnkeyedName ==
    KeyedSearch
      => found.candidates =
           SelectSeq(localCerts, LAMBDA p :
             \/ SubjectKeyID(p) = AuthorityKeyID(found.certificate)
             \/ SubjectKeyID(p) = None /\ Subject(p) = Issuer(found.certificate))

\* A keyed search in a pool that holds a member taken by key identifier, a
\* member without key identifier taken by name, and a member left out
\* because its key identifier differs though its name matches.
C7_Witness ==
    /\ KeyedSearch
    /\ \E k \in 1..Len(found.candidates) :
         SubjectKeyID(found.candidates[k]) = AuthorityKeyID(found.certificate)
    /\ \E k \in 1..Len(found.candidates) :
         SubjectKeyID(found.candidates[k]) = None
    /\ \E p \in PoolSet :
         /\ Subject(p) = Issuer(found.certificate)
         /\ SubjectKeyID(p) \notin {None, AuthorityKeyID(found.certificate)}

\* C8: no exception of the signature check leaves verifyCertificateChain.
C8_NoSignatureExceptionEscapes ==
    LeafKept => error # "signature check raised"

\* C9: the recursion of buildPaths is never deeper than the pool is large.
C9_DepthBoundedByPool ==
    Len(stack) <= Len(localCerts)

\* C10: adjacent certificates of a returned path are linked by a signature
\* check that returned true (the self-check where the two are the same
\* certificate).
C10_SignatureLinked ==
    Returned
      => \A k \in 1..(Len(result) - 1) :
           \/ verify(result[k], result[k + 1]) = "true"
           \/ Equals(result[k], result[k + 1]) /\ verifySelf(result[k]) = "true"

\* A path is returned from a pool in which a member named as the leaf's
\* issuer does not verify the leaf's signature.
C10_Witness ==
    /\ Returned
    /\ \E p \in PoolSet :
         /\ Subject(p) = Issuer(result[1])
         /\ verify(result[1], p) # "true"

====
